---- MODULE Spec2Model ----
(***************************************************************************)
(* Model of n8n-nodes-fyso: the Fyso action node (execute), the Fyso       *)
(* trigger node (webhook hooks, inbound deliveries), the metadata lookups  *)
(* of both and the authentication helpers every handler calls.             *)
(* The repository holds three copies of the helpers:                       *)
(* nodes/Fyso/Fyso.node.ts, nodes/FysoTrigger/FysoTrigger.node.ts and the  *)
(* older trigger file unnamed/part_001.                                    *)
(*                                                                         *)
(* Every `await fetch(...)` is one step that issues the request and        *)
(* receives the remote's answer into `res`; the code after the await is    *)
(* the next step.  The remote is the environment: its answers are drawn    *)
(* from bounded sets.  `log` lists the requests of the current call chain  *)
(* (one input item of execute, one hook invocation, one getAuth call).     *)
(*                                                                         *)
(* JSON objects are sets of <<key, value>> pairs with string values (the   *)
(* boolean true is written "true"); an optional field is <<>> when         *)
(* missing and <<v>> when present.                                         *)
(***************************************************************************)
EXTENDS Naturals, Sequences, FiniteSets, TLC

VARIABLES
  copy,            \* which copy of the helpers the running handler uses
  ctx,             \* the running handler ("none" when the host is idle)
  pc,              \* position inside the running handler
  tenantId,        \* getAuth's tenantId argument
  res,             \* the response the last fetch received
  sessionToken,    \* getAuth's local sessionToken
  token,           \* the token getAuth returned to the handler
  log,             \* requests issued by the current call chain
  serial,          \* number of login requests the remote has answered
  outcome,         \* how the last handler invocation ended
  n,               \* execute: items.length
  continueOnFail,  \* execute: this.continueOnFail()
  i,               \* execute: the loop index
  cur,             \* execute: the parameters read for item i
  results,         \* execute: the results array
  webhookId,       \* trigger: getWorkflowStaticData('node').webhookId
  entityName,      \* trigger: the configured entity
  remoteSubs,      \* remote: the webhook subscriptions registered in Fyso
  listing          \* the list the last metadata lookup or delivery returned

vars == <<copy, ctx, pc, tenantId, res, sessionToken, token, log, serial,
          outcome, n, continueOnFail, i, cur, results, webhookId, entityName,
          remoteSubs, listing>>

execVars == <<n, continueOnFail, i, cur, results>>
hookVars == <<webhookId, entityName, remoteSubs>>

-----------------------------------------------------------------------------
(* Bounds of the model *)

MaxItems == 2
MaxRecords == 2
MaxCalls == 3
MaxOptions == 2

-----------------------------------------------------------------------------
(* Values *)

Absent == <<>>
Opt(S) == {Absent} \cup {<<v>> : v \in S}

Copies == {"Fyso", "FysoTrigger", "part_001"}
TriggerCopies == {"FysoTrigger", "part_001"}
TenantIds == {"", "t1"}
ErrorTexts == {"bad creds"}
RecordIds == {"r1", "r2"}
Operations == {"create", "get", "list", "update", "delete", "upsert"}
EntityNames == {"patients", "orders"}

\* record payloads the remote can hold
Records == {{<<"id", "a">>}, {<<"id", "b">>, <<"success", "false">>}}

Obj(f) == [kind |-> "object", fields |-> f, elems |-> <<>>]
Arr(s) == [kind |-> "array", fields |-> {}, elems |-> s]
NoData == [kind |-> "undefined", fields |-> {}, elems |-> <<>>]

SeqsUpTo(S, k) == UNION {[1..m -> S] : m \in 0..k}

NoResponse == [none |-> TRUE]
NoOutcome ==
  [handler |-> "", kind |-> "none", value |-> "", name |-> "", message |-> "",
   status |-> 0, itemIndex |-> Absent]
Returned(h, v) ==
  [handler |-> h, kind |-> "returned", value |-> v, name |-> "", message |-> "",
   status |-> 0, itemIndex |-> Absent]
Threw(h, e) ==
  [handler |-> h, kind |-> "threw", value |-> "", name |-> e.name,
   message |-> e.message, status |-> e.status, itemIndex |-> e.itemIndex]
Error(nm, msg) == [name |-> nm, message |-> msg, status |-> 0, itemIndex |-> Absent]
ApiError(msg, st) ==
  [name |-> "NodeApiError", message |-> msg, status |-> st, itemIndex |-> Absent]
OperationError(msg, idx) ==
  [name |-> "NodeOperationError", message |-> msg, status |-> 0, itemIndex |-> <<idx>>]
Request(ep, m, b, t) == [endpoint |-> ep, method |-> m, bearer |-> b, target |-> t]
NoItem == [operation |-> "", recordId |-> ""]

\* a rejected fetch (or a body res.json() cannot parse): not caught by any helper
TransportError == Error("TypeError", "fetch failed")

\* JavaScript truthiness of an optional string, `${x}` and x ?? d
IsFalsy(o) == o = Absent \/ o = <<"">>
Render(o) == IF o = Absent THEN "undefined" ELSE o[1]
Coalesce(o, d) == IF o = Absent THEN d ELSE o[1]

-----------------------------------------------------------------------------
(* The remote's answers *)

SessionToken(k) == "session-" \o ToString(k)
TenantToken(k, t) == "tenant-" \o ToString(k) \o "@" \o t

\* {success, data:{token}, error}; the helpers never look at the status
AuthResponses(tok) ==
  {[reachable |-> FALSE, success |-> FALSE, token |-> Absent, error |-> Absent]}
  \cup [reachable : {TRUE}, success : BOOLEAN, token : {Absent, <<tok>>},
        error : Opt(ErrorTexts)]

-----------------------------------------------------------------------------
(* Auth helpers *)

\* Fyso.node.ts and FysoTrigger.node.ts
fysoLogin(r) ==
  IF ~r.success \/ IsFalsy(r.token)
  THEN [threw |-> TRUE, value |-> "",
        error |-> Error("ApplicationError",
                        "Fyso authentication failed: "
                          \o Coalesce(r.error, "invalid credentials"))]
  ELSE [threw |-> FALSE, value |-> r.token[1], error |-> Error("", "")]

fysoSelectTenant(r) ==
  IF ~r.success \/ IsFalsy(r.token)
  THEN [threw |-> TRUE, value |-> "",
        error |-> Error("ApplicationError",
                        "Fyso tenant selection failed: "
                          \o Coalesce(r.error, "unknown error"))]
  ELSE [threw |-> FALSE, value |-> r.token[1], error |-> Error("", "")]

\* unnamed/part_001
fysoLoginOld(r) ==
  IF ~r.success \/ IsFalsy(r.token)
  THEN [threw |-> TRUE, value |-> "",
        error |-> Error("Error", "Fyso login failed: " \o Render(r.error))]
  ELSE [threw |-> FALSE, value |-> r.token[1], error |-> Error("", "")]

fysoSelectTenantOld(r) ==
  IF ~r.success \/ IsFalsy(r.token)
  THEN [threw |-> TRUE, value |-> "",
        error |-> Error("Error", "Fyso tenant select failed: " \o Render(r.error))]
  ELSE [threw |-> FALSE, value |-> r.token[1], error |-> Error("", "")]

\* the helper the running copy binds to the name
LoginOf(c, r) == IF c = "part_001" THEN fysoLoginOld(r) ELSE fysoLogin(r)
SelectOf(c, r) == IF c = "part_001" THEN fysoSelectTenantOld(r) ELSE fysoSelectTenant(r)

\* (mutant) getAuth without its early return
ReturnsSessionTokenNever(t) == FALSE

\* getAuth: `if (!tenantId) return { baseUrl, token: sessionToken }`
ReturnsSessionToken(t) == t = ""

-----------------------------------------------------------------------------
(* How a handler goes on after getAuth, and how an error leaves it *)

ErrorItem(e, idx) == [json |-> Obj({<<"error", e.message>>}), pairedItem |-> idx]

\* (mutant) a loop whose index does not advance
ContinueInPlace(out) ==
  /\ results' = results \o out
  /\ pc' = "item"
  /\ UNCHANGED <<ctx, outcome, i, n, continueOnFail, cur, token, listing, hookVars>>

\* execute: the end of the loop body for item i, `out` pushed to results
Continue(out) ==
  /\ results' = results \o out
  /\ i' = i + 1
  /\ IF i + 1 < n
     THEN pc' = "item" /\ UNCHANGED <<ctx, outcome>>
     ELSE pc' = "idle" /\ ctx' = "none" /\ outcome' = Returned("execute", "results")
  /\ UNCHANGED <<n, continueOnFail, cur, token, listing, hookVars>>

\* an error that leaves the handler
Propagate(e) ==
  /\ outcome' = Threw(ctx, e)
  /\ pc' = "idle"
  /\ ctx' = "none"
  /\ UNCHANGED <<token, execVars, listing, hookVars>>

\* (mutant) a catch block that rethrows whatever the mode
CatchRethrows(e) == Propagate(e)

\* (mutant) a catch block that captures whatever the mode
CatchCaptures(e) == Continue(<<ErrorItem(e, i)>>)

\* execute's catch block
Catch(e) == IF continueOnFail THEN Continue(<<ErrorItem(e, i)>>) ELSE Propagate(e)

\* (mutant) getAuth called outside execute's try block
RaiseUncaught(e) == Propagate(e)

\* an error thrown under the running handler: execute's try block spans the
\* whole loop body, getAuth included
Raise(e) == IF ctx = "execute" THEN Catch(e) ELSE Propagate(e)

\* getAuth returns { baseUrl, token: tok } to the running handler
Resume(tok) ==
  /\ token' = tok
  /\ IF ctx = "getAuth"
     THEN pc' = "idle" /\ ctx' = "none" /\ outcome' = Returned("getAuth", tok)
     ELSE pc' = "op" /\ UNCHANGED <<ctx, outcome>>
  /\ UNCHANGED <<execVars, listing, hookVars>>

-----------------------------------------------------------------------------
(* getAuth *)

\* a direct call of getAuth(ctx, tenantId) of one of the copies
CallGetAuth ==
  /\ ctx = "none"
  /\ serial < MaxCalls
  /\ \E c \in Copies, t \in TenantIds : copy' = c /\ tenantId' = t
  /\ ctx' = "getAuth"
  /\ pc' = "login"
  /\ res' = NoResponse
  /\ sessionToken' = ""
  /\ token' = ""
  /\ log' = <<>>
  /\ outcome' = NoOutcome
  /\ UNCHANGED <<serial, execVars, listing, hookVars>>

\* fysoLogin: POST /api/auth/login and the await of its body
Login ==
  /\ pc = "login"
  /\ res' \in AuthResponses(SessionToken(serial + 1))
  /\ serial' = serial + 1
  /\ log' = Append(log, Request("login", "POST", "", ""))
  /\ pc' = "loginRes"
  /\ UNCHANGED <<copy, ctx, tenantId, sessionToken, token, outcome, execVars,
                 listing, hookVars>>

\* fysoLogin's check of the body, then getAuth's `if (!tenantId)`
LoginDone ==
  /\ pc = "loginRes"
  /\ IF ~res.reachable
     THEN Raise(TransportError) /\ UNCHANGED sessionToken
     ELSE LET r == LoginOf(copy, res) IN
          IF r.threw
          THEN Raise(r.error) /\ UNCHANGED sessionToken
          ELSE /\ sessionToken' = r.value
               /\ IF ReturnsSessionToken(tenantId)
                  THEN Resume(r.value)
                  ELSE /\ pc' = "select"
                       /\ UNCHANGED <<ctx, token, outcome, execVars, listing, hookVars>>
  /\ UNCHANGED <<copy, tenantId, res, log, serial>>

\* fysoSelectTenant: POST /api/auth/tenants/{tenantId}/select
SelectTenant ==
  /\ pc = "select"
  /\ res' \in AuthResponses(TenantToken(serial, tenantId))
  /\ log' = Append(log, Request("select", "POST", sessionToken, tenantId))
  /\ pc' = "selectRes"
  /\ UNCHANGED <<copy, ctx, tenantId, sessionToken, token, serial, outcome,
                 execVars, listing, hookVars>>

\* fysoSelectTenant's check of the body, then getAuth's return
SelectTenantDone ==
  /\ pc = "selectRes"
  /\ IF ~res.reachable
     THEN Raise(TransportError)
     ELSE LET r == SelectOf(copy, res) IN
          IF r.threw THEN Raise(r.error) ELSE Resume(r.value)
  /\ UNCHANGED <<copy, tenantId, res, sessionToken, log, serial>>

-----------------------------------------------------------------------------
(* Fyso.execute *)

Statuses == {200, 404}
NeedsRecordId(op) == op \in {"get", "update", "delete"}
\* (mutant) a chain of branches whose last one takes every other value
KnownOperationAny(op) == TRUE

\* the values the if / else-if chain has a branch for
KnownOperation(op) == op \in {"create", "get", "list", "update", "delete"}

\* the bodies the records endpoints answer with: {success, data, error}; a list
\* answers with an array (or, off contract, with an object or nothing)
RecordData(op) ==
  IF op = "list"
  THEN {NoData, Obj({<<"id", "a">>})} \cup {Arr(s) : s \in SeqsUpTo(Records, MaxRecords)}
  ELSE {NoData} \cup {Obj(r) : r \in Records}

RecordResponses(op) ==
  {[reachable |-> FALSE, status |-> 0, success |-> FALSE, data |-> NoData,
    error |-> Absent]}
  \cup [reachable : {TRUE}, status : Statuses, success : BOOLEAN,
        data : RecordData(op), error : Opt(ErrorTexts)]

\* res.ok
Ok(r) == r.status >= 200 /\ r.status <= 299

MethodOf(op) ==
  CASE op = "create" -> "POST"
    [] op = "update" -> "PUT"
    [] op = "delete" -> "DELETE"
    [] OTHER -> "GET"

\* (mutant) a check of the status only
RequestFailedStatusOnly(r) == ~Ok(r)

\* `if (!res.ok || !data.success)`
RequestFailed(r) == ~Ok(r) \/ ~r.success

\* the NodeApiError each branch throws (message and statusCode as passed to
\* the constructor)
FailureOf(op, rid, r) ==
  ApiError(Coalesce(r.error,
             CASE op = "create" -> "Failed to create record"
               [] op = "get" -> "Record " \o rid \o " not found"
               [] op = "list" -> "Failed to list records"
               [] op = "update" -> "Failed to update record " \o rid
               [] OTHER -> "Failed to delete record " \o rid),
           r.status)

\* the parsed body `data` as an IDataObject (reached only when data.success)
Envelope(r) ==
  Obj({<<"success", "true">>}
      \cup (IF r.error = Absent THEN {} ELSE {<<"error", r.error[1]>>}))

\* `{ json: data.data ?? (data as IDataObject), pairedItem: i }`
RecordOutput(r, idx) ==
  <<[json |-> IF r.data.kind = "undefined" THEN Envelope(r) ELSE r.data,
     pairedItem |-> idx]>>

\* (mutant) the list branch pushing the array as one item
ListOutputCombined(r, idx) == <<[json |-> r.data, pairedItem |-> idx]>>

\* the list branch: one pushed item per element of data.data
ListOutput(r, idx) ==
  LET records == IF r.data.kind = "array" THEN r.data.elems ELSE <<>>
  IN [k \in 1..Len(records) |-> [json |-> Obj(records[k]), pairedItem |-> idx]]

\* the delete branch
DeleteOutput(rid, idx) ==
  <<[json |-> Obj({<<"success", "true">>, <<"id", rid>>}), pairedItem |-> idx]>>

\* (mutant) the delete branch echoing the body like the other branches
OutputOfEcho(op, rid, r, idx) ==
  IF op = "list" THEN ListOutput(r, idx) ELSE RecordOutput(r, idx)

OutputOf(op, rid, r, idx) ==
  CASE op = "list" -> ListOutput(r, idx)
    [] op = "delete" -> DeleteOutput(rid, idx)
    [] OTHER -> RecordOutput(r, idx)

\* execute is entered: getInputData(), results = [], the first loop test
ExecStart ==
  /\ ctx = "none"
  /\ copy = "Fyso"
  /\ outcome.kind = "none"
  /\ n' \in 0..MaxItems
  /\ continueOnFail' \in BOOLEAN
  /\ i' = 0
  /\ results' = <<>>
  /\ IF n' > 0
     THEN ctx' = "execute" /\ pc' = "item" /\ UNCHANGED outcome
     ELSE outcome' = Returned("execute", "results") /\ UNCHANGED <<ctx, pc>>
  /\ UNCHANGED <<copy, tenantId, res, sessionToken, token, log, serial, cur, listing,
                 hookVars>>

\* (mutant) a loop that keeps the first item's token for the later items
ExecItemCached ==
  /\ ctx = "execute"
  /\ pc = "item"
  /\ tenantId' \in TenantIds
  /\ \E op \in Operations : cur' = [operation |-> op, recordId |-> ""]
  /\ res' = NoResponse
  /\ log' = <<>>
  /\ IF token = ""
     THEN sessionToken' = "" /\ pc' = "login"
     ELSE UNCHANGED sessionToken /\ pc' = "op"
  /\ UNCHANGED <<copy, ctx, token, serial, outcome, n, continueOnFail, i, results,
                 listing, hookVars>>

\* the head of the loop body: the item's parameters are read, getAuth is called
ExecItem ==
  /\ ctx = "execute"
  /\ pc = "item"
  /\ tenantId' \in TenantIds
  /\ \E op \in Operations : cur' = [operation |-> op, recordId |-> ""]
  /\ res' = NoResponse
  /\ sessionToken' = ""
  /\ token' = ""
  /\ log' = <<>>
  /\ pc' = "login"
  /\ UNCHANGED <<copy, ctx, serial, outcome, n, continueOnFail, i, results, listing,
                 hookVars>>

\* one of the five branches: its parameters are read and its request is sent
ExecRequest ==
  /\ ctx = "execute"
  /\ pc = "op"
  /\ KnownOperation(cur.operation)
  /\ \E rid \in (IF NeedsRecordId(cur.operation) THEN RecordIds ELSE {""}) :
       /\ cur' = [cur EXCEPT !.recordId = rid]
       /\ log' = Append(log, Request("records", MethodOf(cur.operation), token, rid))
  /\ res' \in RecordResponses(cur.operation)
  /\ pc' = "opRes"
  /\ UNCHANGED <<copy, ctx, tenantId, sessionToken, token, serial, outcome, n,
                 continueOnFail, i, results, listing, hookVars>>

\* the else branch: NodeOperationError
ExecUnknownOperation ==
  /\ ctx = "execute"
  /\ pc = "op"
  /\ ~KnownOperation(cur.operation)
  /\ Catch(OperationError("Unknown operation: " \o cur.operation, i))
  /\ UNCHANGED <<copy, tenantId, res, sessionToken, log, serial>>

\* the rest of the branch: the check of the response and the push
ExecRequestDone ==
  /\ ctx = "execute"
  /\ pc = "opRes"
  /\ IF ~res.reachable
     THEN Catch(TransportError)
     ELSE IF RequestFailed(res)
          THEN Catch(FailureOf(cur.operation, cur.recordId, res))
          ELSE Continue(OutputOf(cur.operation, cur.recordId, res, i))
  /\ UNCHANGED <<copy, tenantId, res, sessionToken, log, serial>>

-----------------------------------------------------------------------------
(* FysoTrigger.webhookMethods.default *)

\* `if (!webhookId)`
NoWebhookId(w) == IsFalsy(w)

WebhookIdOf(k) == "wh-" \o ToString(k)

\* GET /api/webhooks/subscriptions?entityName=: {success, data:[{id}]}, the
\* ids of the subscriptions the remote holds for that entity
ListResponses(e) ==
  {[reachable |-> FALSE, success |-> FALSE, data |-> Absent]}
  \cup [reachable : {TRUE}, success : BOOLEAN,
        data : {Absent, <<{s.id : s \in {x \in remoteSubs : x.entity = e}}>>}]

\* POST /api/webhooks/subscriptions: {success, data:{id}}
CreateResponses(w) ==
  {[reachable |-> FALSE, success |-> FALSE, id |-> Absent]}
  \cup [reachable : {TRUE}, success : BOOLEAN, id : {Absent, <<w>>}]

\* DELETE /api/webhooks/subscriptions/{id}
DeleteResponses ==
  {[reachable |-> FALSE, status |-> 0, success |-> FALSE]}
  \cup [reachable : {TRUE}, status : Statuses, success : BOOLEAN]

\* a hook is entered: its locals are fresh
HookEntry ==
  /\ res' = NoResponse
  /\ sessionToken' = ""
  /\ token' = ""
  /\ log' = <<>>
  /\ listing' = <<>>

\* a hook returns v to the host
HookReturn(v) ==
  /\ outcome' = Returned(ctx, v)
  /\ pc' = "idle"
  /\ ctx' = "none"

\* (mutant) checkExists trusting any successful list
CheckExistsAnyList(r, w) == IF ~r.success \/ r.data = Absent THEN "false" ELSE "true"

\* checkExists: `return data.data.some((w) => w.id === webhookId)` and the
\* early return before it
CheckExistsResult(r, w) ==
  IF ~r.success \/ r.data = Absent THEN "false"
  ELSE IF w[1] \in r.data[1] THEN "true" ELSE "false"

\* checkExists with no persisted id: `if (!webhookId) return false`
CheckExistsNoId ==
  /\ ctx = "none"
  /\ copy \in TriggerCopies
  /\ NoWebhookId(webhookId)
  /\ HookEntry
  /\ outcome' = Returned("checkExists", "false")
  /\ UNCHANGED <<copy, ctx, pc, tenantId, serial, execVars, hookVars>>

\* checkExists with a persisted id: the parameters are read, getAuth is called
CheckExistsCall ==
  /\ ctx = "none"
  /\ copy \in TriggerCopies
  /\ serial < MaxCalls
  /\ ~NoWebhookId(webhookId)
  /\ HookEntry
  /\ tenantId' \in TenantIds
  /\ entityName' \in EntityNames
  /\ ctx' = "checkExists"
  /\ pc' = "login"
  /\ outcome' = NoOutcome
  /\ UNCHANGED <<copy, serial, execVars, webhookId, remoteSubs>>

CheckExistsRequest ==
  /\ ctx = "checkExists"
  /\ pc = "op"
  /\ res' \in ListResponses(entityName)
  /\ log' = Append(log, Request("subscriptions", "GET", token, entityName))
  /\ pc' = "opRes"
  /\ UNCHANGED <<copy, ctx, tenantId, sessionToken, token, serial, outcome,
                 execVars, listing, hookVars>>

\* (mutant) checkExists dropping an id it did not find
CheckExistsDoneForgets ==
  /\ ctx = "checkExists"
  /\ pc = "opRes"
  /\ IF ~res.reachable
     THEN Propagate(TransportError)
     ELSE /\ HookReturn(CheckExistsResult(res, webhookId))
          /\ webhookId' =
               IF CheckExistsResult(res, webhookId) = "false" THEN Absent ELSE webhookId
          /\ UNCHANGED <<token, execVars, listing, entityName, remoteSubs>>
  /\ UNCHANGED <<copy, tenantId, res, sessionToken, log, serial>>

CheckExistsDone ==
  /\ ctx = "checkExists"
  /\ pc = "opRes"
  /\ IF ~res.reachable
     THEN Propagate(TransportError)
     ELSE /\ HookReturn(CheckExistsResult(res, webhookId))
          /\ UNCHANGED <<token, execVars, listing, hookVars>>
  /\ UNCHANGED <<copy, tenantId, res, sessionToken, log, serial>>

\* create: the host calls it when checkExists returned false
CreateCall ==
  /\ ctx = "none"
  /\ copy \in TriggerCopies
  /\ serial < MaxCalls
  /\ outcome = Returned("checkExists", "false")
  /\ HookEntry
  /\ tenantId' \in TenantIds
  /\ entityName' \in EntityNames
  /\ ctx' = "create"
  /\ pc' = "login"
  /\ outcome' = NoOutcome
  /\ UNCHANGED <<copy, serial, execVars, webhookId, remoteSubs>>

\* the remote registers the subscription exactly when it answers with
\* success and an id
CreateRequest ==
  /\ ctx = "create"
  /\ pc = "op"
  /\ res' \in CreateResponses(WebhookIdOf(serial))
  /\ remoteSubs' =
       IF res'.reachable /\ res'.success /\ res'.id # Absent
       THEN remoteSubs \cup {[id |-> res'.id[1], entity |-> entityName]}
       ELSE remoteSubs
  /\ log' = Append(log, Request("subscriptions", "POST", token, entityName))
  /\ pc' = "opRes"
  /\ UNCHANGED <<copy, ctx, tenantId, sessionToken, token, serial, outcome,
                 execVars, listing, webhookId, entityName>>

\* (mutant) create looking at the id only
CreateRejectedNoId(r) == IsFalsy(r.id)

\* `if (!data.success || !data.data?.id) return false`
CreateRejected(r) == ~r.success \/ IsFalsy(r.id)

CreateDone ==
  /\ ctx = "create"
  /\ pc = "opRes"
  /\ IF ~res.reachable
     THEN Propagate(TransportError)
     ELSE IF CreateRejected(res)
          THEN /\ HookReturn("false")
               /\ UNCHANGED <<token, execVars, listing, hookVars>>
          ELSE /\ webhookId' = <<res.id[1]>>
               /\ HookReturn("true")
               /\ UNCHANGED <<token, execVars, listing, entityName, remoteSubs>>
  /\ UNCHANGED <<copy, tenantId, res, sessionToken, log, serial>>

\* delete with no persisted id: `if (!webhookId) return true`
DeleteNoId ==
  /\ ctx = "none"
  /\ copy \in TriggerCopies
  /\ NoWebhookId(webhookId)
  /\ HookEntry
  /\ outcome' = Returned("delete", "true")
  /\ UNCHANGED <<copy, ctx, pc, tenantId, serial, execVars, hookVars>>

DeleteCall ==
  /\ ctx = "none"
  /\ copy \in TriggerCopies
  /\ serial < MaxCalls
  /\ ~NoWebhookId(webhookId)
  /\ HookEntry
  /\ tenantId' \in TenantIds
  /\ ctx' = "delete"
  /\ pc' = "login"
  /\ outcome' = NoOutcome
  /\ UNCHANGED <<copy, serial, execVars, hookVars>>

\* the remote drops the subscription exactly when it answers 2xx with success
DeleteRequest ==
  /\ ctx = "delete"
  /\ pc = "op"
  /\ res' \in DeleteResponses
  /\ remoteSubs' =
       IF res'.reachable /\ Ok(res') /\ res'.success
       THEN {s \in remoteSubs : s.id # webhookId[1]}
       ELSE remoteSubs
  /\ log' = Append(log, Request("subscriptions", "DELETE", token, webhookId[1]))
  /\ pc' = "opRes"
  /\ UNCHANGED <<copy, ctx, tenantId, sessionToken, token, serial, outcome,
                 execVars, listing, webhookId, entityName>>

\* (mutant) delete clearing the id only when the remote confirmed
DeleteDoneConfirmed ==
  /\ ctx = "delete"
  /\ pc = "opRes"
  /\ IF ~res.reachable
     THEN Propagate(TransportError)
     ELSE /\ webhookId' = IF Ok(res) /\ res.success THEN Absent ELSE webhookId
          /\ HookReturn("true")
          /\ UNCHANGED <<token, execVars, listing, entityName, remoteSubs>>
  /\ UNCHANGED <<copy, tenantId, res, sessionToken, log, serial>>

\* the response is awaited and not looked at; the id is cleared
DeleteDone ==
  /\ ctx = "delete"
  /\ pc = "opRes"
  /\ IF ~res.reachable
     THEN Propagate(TransportError)
     ELSE /\ webhookId' = Absent
          /\ HookReturn("true")
          /\ UNCHANGED <<token, execVars, listing, entityName, remoteSubs>>
  /\ UNCHANGED <<copy, tenantId, res, sessionToken, log, serial>>

\* the remote loses a subscription on its own
RemoteLoses ==
  /\ ctx = "none"
  /\ \E s \in remoteSubs : remoteSubs' = remoteSubs \ {s}
  /\ UNCHANGED <<copy, ctx, pc, tenantId, res, sessionToken, token, log, serial,
                 outcome, execVars, listing, webhookId, entityName>>

-----------------------------------------------------------------------------
(* Metadata lookups (listSearch) *)

\* the tenants and entities the remote can list
Tenants ==
  {[id |-> "t1", name |-> "Acme", slug |-> "acme"],
   [id |-> "t2", name |-> "Beta", slug |-> "beta"]}
Entities ==
  {[name |-> "patients", displayName |-> <<"Patients">>],
   [name |-> "orders", displayName |-> Absent]}

\* GET /api/auth/tenants and GET /api/metadata/entities: {success, data:[...]}
LookupResponses(S) ==
  {[reachable |-> FALSE, success |-> FALSE, data |-> Absent]}
  \cup [reachable : {TRUE}, success : BOOLEAN, data : Opt(SeqsUpTo(S, MaxRecords))]

\* getTenants: `if (!data.success || !data.data) return { results: [] }` and
\* the map to { name: `${t.name} (${t.slug})`, value: t.id }
getTenantsResults(r) ==
  IF ~r.success \/ r.data = Absent THEN <<>>
  ELSE [k \in 1..Len(r.data[1]) |->
          [name |-> r.data[1][k].name \o " (" \o r.data[1][k].slug \o ")",
           value |-> r.data[1][k].id]]

\* getEntities: the same check and { name: e.displayName ?? e.name, value: e.name }
getEntitiesResults(r) ==
  IF ~r.success \/ r.data = Absent THEN <<>>
  ELSE [k \in 1..Len(r.data[1]) |->
          [name |-> Coalesce(r.data[1][k].displayName, r.data[1][k].name),
           value |-> r.data[1][k].name]]

\* the host runs lookups while the node is edited, not after an execution
Editing == ctx = "none" /\ outcome.handler # "execute"

\* getTenants: fysoLogin is called directly (the path of an empty tenant id)
GetTenantsCall ==
  /\ Editing
  /\ serial < MaxCalls
  /\ HookEntry
  /\ tenantId' = ""
  /\ ctx' = "getTenants"
  /\ pc' = "login"
  /\ outcome' = NoOutcome
  /\ UNCHANGED <<copy, serial, execVars, hookVars>>

GetTenantsRequest ==
  /\ ctx = "getTenants"
  /\ pc = "op"
  /\ res' \in LookupResponses(Tenants)
  /\ log' = Append(log, Request("tenants", "GET", token, ""))
  /\ pc' = "opRes"
  /\ UNCHANGED <<copy, ctx, tenantId, sessionToken, token, serial, outcome,
                 execVars, listing, hookVars>>

GetTenantsDone ==
  /\ ctx = "getTenants"
  /\ pc = "opRes"
  /\ IF ~res.reachable
     THEN Propagate(TransportError)
     ELSE /\ listing' = getTenantsResults(res)
          /\ HookReturn("results")
          /\ UNCHANGED <<token, execVars, hookVars>>
  /\ UNCHANGED <<copy, tenantId, res, sessionToken, log, serial>>

\* getEntities with no tenant chosen: `if (!tenantLocator.value) return { results: [] }`
GetEntitiesNoTenant ==
  /\ Editing
  /\ HookEntry
  /\ tenantId' = ""
  /\ outcome' = Returned("getEntities", "results")
  /\ UNCHANGED <<copy, ctx, pc, serial, execVars, hookVars>>

GetEntitiesCall ==
  /\ Editing
  /\ serial < MaxCalls
  /\ HookEntry
  /\ tenantId' \in TenantIds \ {""}
  /\ ctx' = "getEntities"
  /\ pc' = "login"
  /\ outcome' = NoOutcome
  /\ UNCHANGED <<copy, serial, execVars, hookVars>>

GetEntitiesRequest ==
  /\ ctx = "getEntities"
  /\ pc = "op"
  /\ res' \in LookupResponses(Entities)
  /\ log' = Append(log, Request("entities", "GET", token, ""))
  /\ pc' = "opRes"
  /\ UNCHANGED <<copy, ctx, tenantId, sessionToken, token, serial, outcome,
                 execVars, listing, hookVars>>

GetEntitiesDone ==
  /\ ctx = "getEntities"
  /\ pc = "opRes"
  /\ IF ~res.reachable
     THEN Propagate(TransportError)
     ELSE /\ listing' = getEntitiesResults(res)
          /\ HookReturn("results")
          /\ UNCHANGED <<token, execVars, hookVars>>
  /\ UNCHANGED <<copy, tenantId, res, sessionToken, log, serial>>

-----------------------------------------------------------------------------
(* The field description lookup (resourceMapping) *)

FieldTypes == {"number", "boolean", "date", "select", "text"}

\* an option is a plain string or a {value, label?} pair
RemoteOptions ==
  {[isString |-> TRUE, value |-> "a", label |-> Absent],
   [isString |-> FALSE, value |-> "b", label |-> <<"B">>],
   [isString |-> FALSE, value |-> "c", label |-> Absent]}

\* {fieldKey, name, fieldType, isRequired?, config?: {options?}}
RemoteFields ==
  [fieldKey : {"k"}, name : {"K"}, fieldType : FieldTypes,
   isRequired : {Absent, <<TRUE>>},
   options : Opt(SeqsUpTo(RemoteOptions, MaxOptions))]

\* a field list with more than one field
TwoFields ==
  <<[fieldKey |-> "k", name |-> "K", fieldType |-> "date", isRequired |-> Absent,
     options |-> Absent],
    [fieldKey |-> "s", name |-> "S", fieldType |-> "select", isRequired |-> <<TRUE>>,
     options |-> <<<<[isString |-> TRUE, value |-> "a", label |-> Absent]>>>>]>>

\* GET /api/metadata/entities/{entity}: {success, data:{fields}}
FieldResponses ==
  {[reachable |-> FALSE, success |-> FALSE, fields |-> Absent]}
  \cup [reachable : {TRUE}, success : BOOLEAN,
        fields : Opt({<<>>, TwoFields} \cup {<<f>> : f \in RemoteFields})]

\* (mutant) a type map without the date case
fysoTypeToN8nNoDate(t) ==
  CASE t = "number" -> "number"
    [] t = "boolean" -> "boolean"
    [] OTHER -> "string"

fysoTypeToN8n(t) ==
  CASE t = "number" -> "number"
    [] t = "boolean" -> "boolean"
    [] t = "date" -> "dateTime"
    [] OTHER -> "string"

\* typeof o === 'string' ? { name: o, value: o }
\*                        : { name: o.label ?? o.value, value: o.value }
FlattenOption(o) ==
  IF o.isString THEN [name |-> o.value, value |-> o.value]
  ELSE [name |-> Coalesce(o.label, o.value), value |-> o.value]

\* the ResourceMapperField built for one remote field; field.options is set
\* only for a select field that carries options
EntityField(f) ==
  [id |-> f.fieldKey,
   displayName |-> f.name,
   required |-> IF f.isRequired = Absent THEN FALSE ELSE f.isRequired[1],
   defaultMatch |-> FALSE,
   display |-> TRUE,
   type |-> fysoTypeToN8n(f.fieldType),
   canBeUsedToMatch |-> FALSE,
   options |-> IF f.fieldType = "select" /\ f.options # Absent
               THEN <<[k \in 1..Len(f.options[1]) |-> FlattenOption(f.options[1][k])]>>
               ELSE Absent]

\* `if (!data.success || !data.data?.fields) return { fields: [] }` and the map
getEntityFieldsResult(r) ==
  IF ~r.success \/ r.fields = Absent THEN <<>>
  ELSE [k \in 1..Len(r.fields[1]) |-> EntityField(r.fields[1][k])]

\* `if (!tenantLocator.value || !entityLocator.value) return { fields: [] }`
GetEntityFieldsNoParams ==
  /\ Editing
  /\ copy = "Fyso"
  /\ HookEntry
  /\ \E t \in TenantIds, e \in EntityNames \cup {""} :
       /\ t = "" \/ e = ""
       /\ tenantId' = t
       /\ entityName' = e
  /\ outcome' = Returned("getEntityFields", "fields")
  /\ UNCHANGED <<copy, ctx, pc, serial, execVars, webhookId, remoteSubs>>

GetEntityFieldsCall ==
  /\ Editing
  /\ copy = "Fyso"
  /\ serial < MaxCalls
  /\ HookEntry
  /\ tenantId' \in TenantIds \ {""}
  /\ entityName' \in EntityNames
  /\ ctx' = "getEntityFields"
  /\ pc' = "login"
  /\ outcome' = NoOutcome
  /\ UNCHANGED <<copy, serial, execVars, webhookId, remoteSubs>>

GetEntityFieldsRequest ==
  /\ ctx = "getEntityFields"
  /\ pc = "op"
  /\ res' \in FieldResponses
  /\ log' = Append(log, Request("entity", "GET", token, entityName))
  /\ pc' = "opRes"
  /\ UNCHANGED <<copy, ctx, tenantId, sessionToken, token, serial, outcome,
                 execVars, listing, hookVars>>

GetEntityFieldsDone ==
  /\ ctx = "getEntityFields"
  /\ pc = "opRes"
  /\ IF ~res.reachable
     THEN Propagate(TransportError)
     ELSE /\ listing' = getEntityFieldsResult(res)
          /\ HookReturn("fields")
          /\ UNCHANGED <<token, execVars, hookVars>>
  /\ UNCHANGED <<copy, tenantId, res, sessionToken, log, serial>>

-----------------------------------------------------------------------------
(* FysoTrigger.webhook *)

\* an inbound delivery: the body becomes the single item of the workflow data
Webhook ==
  /\ ctx = "none"
  /\ copy \in TriggerCopies
  /\ res' = NoResponse
  /\ sessionToken' = ""
  /\ token' = ""
  /\ log' = <<>>
  /\ \E body \in Records : listing' = <<[json |-> Obj(body)]>>
  /\ outcome' = Returned("webhook", "workflowData")
  /\ UNCHANGED <<copy, ctx, pc, tenantId, serial, execVars, hookVars>>

-----------------------------------------------------------------------------
(* Specifications *)

Quiet ==
  /\ ctx = "none"
  /\ pc = "idle"
  /\ tenantId = ""
  /\ res = NoResponse
  /\ sessionToken = ""
  /\ token = ""
  /\ log = <<>>
  /\ serial = 0
  /\ outcome = NoOutcome
  /\ n = 0
  /\ continueOnFail = FALSE
  /\ i = 0
  /\ cur = NoItem
  /\ results = <<>>
  /\ webhookId = Absent
  /\ entityName = ""
  /\ remoteSubs = {}
  /\ listing = <<>>

InitAuth == Quiet /\ copy \in Copies
NextAuth == CallGetAuth \/ Login \/ LoginDone \/ SelectTenant \/ SelectTenantDone
SpecAuth == InitAuth /\ [][NextAuth]_vars

InitExecute == Quiet /\ copy = "Fyso"
NextExecute ==
  \/ ExecStart
  \/ ExecItem
  \/ Login
  \/ LoginDone
  \/ SelectTenant
  \/ SelectTenantDone
  \/ ExecRequest
  \/ ExecUnknownOperation
  \/ ExecRequestDone
SpecExecute == InitExecute /\ [][NextExecute]_vars

InitTrigger == Quiet /\ copy \in {"FysoTrigger", "part_001"}
NextTrigger ==
  \/ CheckExistsNoId
  \/ CheckExistsCall
  \/ CheckExistsRequest
  \/ CheckExistsDone
  \/ CreateCall
  \/ CreateRequest
  \/ CreateDone
  \/ DeleteNoId
  \/ DeleteCall
  \/ DeleteRequest
  \/ DeleteDone
  \/ RemoteLoses
  \/ Login
  \/ LoginDone
  \/ SelectTenant
  \/ SelectTenantDone
SpecTrigger == InitTrigger /\ [][NextTrigger]_vars

\* the metadata lookups of the three files
InitLookup == Quiet /\ copy \in Copies
NextLookup ==
  \/ GetTenantsCall
  \/ GetTenantsRequest
  \/ GetTenantsDone
  \/ GetEntitiesNoTenant
  \/ GetEntitiesCall
  \/ GetEntitiesRequest
  \/ GetEntitiesDone
  \/ GetEntityFieldsNoParams
  \/ GetEntityFieldsCall
  \/ GetEntityFieldsRequest
  \/ GetEntityFieldsDone
  \/ Login
  \/ LoginDone
  \/ SelectTenant
  \/ SelectTenantDone
SpecLookup == InitLookup /\ [][NextLookup]_vars

\* every handler of a node: the action node (copy "Fyso") runs execute and
\* its lookups, a trigger node runs its hooks, its deliveries and its lookups
InitNodes == Quiet /\ copy \in Copies
NextNodes ==
  \/ ExecStart
  \/ ExecItem
  \/ ExecRequest
  \/ ExecUnknownOperation
  \/ ExecRequestDone
  \/ CheckExistsNoId
  \/ CheckExistsCall
  \/ CheckExistsRequest
  \/ CheckExistsDone
  \/ CreateCall
  \/ CreateRequest
  \/ CreateDone
  \/ DeleteNoId
  \/ DeleteCall
  \/ DeleteRequest
  \/ DeleteDone
  \/ RemoteLoses
  \/ Webhook
  \/ GetTenantsCall
  \/ GetTenantsRequest
  \/ GetTenantsDone
  \/ GetEntitiesNoTenant
  \/ GetEntitiesCall
  \/ GetEntitiesRequest
  \/ GetEntitiesDone
  \/ GetEntityFieldsNoParams
  \/ GetEntityFieldsCall
  \/ GetEntityFieldsRequest
  \/ GetEntityFieldsDone
  \/ Login
  \/ LoginDone
  \/ SelectTenant
  \/ SelectTenantDone
SpecNodes == InitNodes /\ [][NextNodes]_vars

-----------------------------------------------------------------------------
(* Properties *)

LastRequest == log[Len(log)]

\* the loop body of an input item has just ended; cur, res and log are its own
ItemDone ==
  /\ n > 0
  /\ \/ ctx = "execute" /\ pc = "item" /\ i > 0
     \/ ctx = "none" /\ outcome.kind # "none"
LastItem == IF outcome.kind = "threw" THEN i ELSE i - 1
OutputsOf(idx) == SelectSeq(results, LAMBDA o : o.pairedItem = idx)
ReachedRecordRequest == log # <<>> /\ LastRequest.endpoint = "records"
RecordRequestSucceeded ==
  ItemDone /\ ReachedRecordRequest /\ res.reachable /\ Ok(res) /\ res.success
IsAuthResponse == "token" \in DOMAIN res
AuthRejected == IsAuthResponse /\ res.reachable /\ (~res.success \/ res.token = Absent)
Keys(json) == {f[1] : f \in json.fields}

\* C1: a getAuth call without a tenant id issues the login request only and
\* returns the session token of the login response; with a tenant id it issues
\* one login request first and the tenant-select request second, after the
\* login succeeded and with the login's session token as bearer, and returns
\* the tenant token; no call chain holds a tenant-select request without a
\* successful login before it.
C1_LoginThenSelect ==
  /\ log # <<>> => log[1].endpoint = "login"
  /\ \A k \in 1..Len(log) :
       /\ log[k].endpoint = "login" => k = 1
       /\ log[k].endpoint = "select" =>
            /\ k = 2
            /\ tenantId # ""
            /\ sessionToken = SessionToken(serial)
            /\ log[k].bearer = sessionToken
            /\ log[k].target = tenantId
  /\ pc = "select" => res.reachable /\ res.success /\ res.token = <<sessionToken>>
  /\ outcome.kind = "returned" =>
       IF tenantId = ""
       THEN /\ Len(log) = 1
            /\ res.token = <<SessionToken(serial)>>
            /\ outcome.value = SessionToken(serial)
       ELSE /\ Len(log) = 2
            /\ res.token = <<TenantToken(serial, tenantId)>>
            /\ outcome.value = TenantToken(serial, tenantId)

C1_Witness ==
  /\ outcome.handler = "getAuth"
  /\ outcome.kind = "returned"
  /\ tenantId # ""
  /\ Len(log) = 2
  /\ log[2].endpoint = "select"

\* C2: a successful list whose response carries an array of N records pushes
\* exactly N output items for its input item, the k-th holding the k-th record
\* unchanged, and no output item holds the array itself.
C2_ListFanOut ==
  (RecordRequestSucceeded /\ cur.operation = "list" /\ res.data.kind = "array") =>
    LET out == OutputsOf(LastItem) IN
      /\ Len(out) = Len(res.data.elems)
      /\ \A k \in 1..Len(out) :
           /\ out[k].json = Obj(res.data.elems[k])
           /\ out[k].json.kind # "array"
      /\ SubSeq(results, Len(results) - Len(out) + 1, Len(results)) = out

C2_Witness ==
  /\ RecordRequestSucceeded
  /\ cur.operation = "list"
  /\ res.data.kind = "array"
  /\ Len(res.data.elems) = 2
  /\ res.data.elems[1] # res.data.elems[2]
  /\ Len(OutputsOf(LastItem)) = 2

\* C3: with continue-on-failure enabled execute never raises; every item of a
\* single-record operation ends with exactly one output item, the last of the
\* results, whose json holds only an error message when the item failed and
\* the record data (for delete, the synthesized success object) when it did
\* not; results are in input order, and execute returns only after the last
\* item.
SingleRecordOperation(op) == op \in {"create", "get", "update", "delete"}
C3_ContinueOnFail ==
  continueOnFail =>
    /\ outcome.kind # "threw"
    /\ outcome.kind = "returned" => i = n
    /\ \A k \in 1..Len(results) :
         /\ results[k].pairedItem < i
         /\ k > 1 => results[k - 1].pairedItem <= results[k].pairedItem
    /\ (ItemDone /\ SingleRecordOperation(cur.operation)) =>
         LET out == OutputsOf(LastItem) IN
           /\ Len(out) = 1
           /\ results[Len(results)] = out[1]
           /\ IF RecordRequestSucceeded
              THEN /\ Keys(out[1].json) # {"error"}
                   /\ cur.operation = "delete" => out[1].json.fields =
                        {<<"success", "true">>, <<"id", cur.recordId>>}
                   /\ (cur.operation # "delete" /\ res.data.kind = "object") =>
                        out[1].json = res.data
              ELSE /\ Keys(out[1].json) = {"error"}
                   /\ Cardinality(out[1].json.fields) = 1

C3_Witness ==
  /\ continueOnFail
  /\ outcome = Returned("execute", "results")
  /\ n = 2
  /\ Len(results) = 2
  /\ Keys(results[1].json) = {"error"}
  /\ results[1].pairedItem = 0
  /\ SingleRecordOperation(cur.operation)
  /\ RecordRequestSucceeded
  /\ results[2].json = res.data

\* C4 as claimed: an authentication failure is never suppressed; in every mode
\* it propagates as a failure of execute and yields no output item.
C4_AuthFailureNeverSuppressed ==
  (ItemDone /\ AuthRejected) =>
    /\ outcome.kind = "threw"
    /\ OutputsOf(LastItem) = <<>>

\* C4 as amended: an authentication failure ends the item without a record
\* request; with continue-on-failure disabled it propagates as the failure of
\* execute and yields no output item, with continue-on-failure enabled it
\* becomes the item's single output item holding only the error message and
\* the loop goes on.
C4_AuthFailureFollowsMode ==
  (ItemDone /\ AuthRejected) =>
    /\ \A k \in 1..Len(log) : log[k].endpoint # "records"
    /\ IF continueOnFail
       THEN /\ outcome.kind # "threw"
            /\ Len(OutputsOf(LastItem)) = 1
            /\ Keys(OutputsOf(LastItem)[1].json) = {"error"}
            /\ i = LastItem + 1
       ELSE /\ outcome.kind = "threw"
            /\ outcome.name = "ApplicationError"
            /\ OutputsOf(LastItem) = <<>>

C4_Witness ==
  /\ ItemDone
  /\ AuthRejected
  /\ continueOnFail
  /\ Len(log) = 2
  /\ Len(OutputsOf(LastItem)) = 1

\* C5: checkExists returns true only when an id is persisted and the list
\* request was answered successfully with a list holding that id; it returns
\* false when no id is persisted, without any request, and when the list is
\* unsuccessful, missing, empty or lacks the id.
C5_CheckExists ==
  (outcome.handler = "checkExists" /\ outcome.kind = "returned") =>
    /\ outcome.value \in {"true", "false"}
    /\ outcome.value = "true" <=>
         /\ webhookId # Absent
         /\ log # <<>>
         /\ LastRequest.endpoint = "subscriptions"
         /\ res.reachable
         /\ res.success
         /\ res.data # Absent
         /\ webhookId[1] \in res.data[1]
    /\ webhookId = Absent => log = <<>>

C5_Witness ==
  /\ outcome = Returned("checkExists", "false")
  /\ webhookId # Absent
  /\ log # <<>>
  /\ LastRequest.endpoint = "subscriptions"
  /\ res.success
  /\ res.data # Absent

\* C6 as claimed: after create returned false no webhook id is held.
C6_FailedCreateLeavesAbsent ==
  outcome = Returned("create", "false") => webhookId = Absent

\* C6 as amended: when the registration response is successful and carries an
\* id, create persists exactly that id and returns true; when it is
\* unsuccessful or carries no id, create returns false and leaves the
\* persisted id as it was before create ran (absent if none was held, a stale
\* id still held).
C6_CreateOutcome ==
  [][(ctx = "create" /\ pc = "opRes" /\ res.reachable) =>
       IF res.success /\ res.id # Absent
       THEN /\ webhookId' = res.id
            /\ outcome' = Returned("create", "true")
       ELSE /\ webhookId' = webhookId
            /\ outcome' = Returned("create", "false")]_vars

C6_Witness ==
  /\ outcome = Returned("create", "false")
  /\ webhookId # Absent

\* C7 as claimed: with an id persisted every invocation of delete, whatever
\* fails, ends with the id cleared and returns true.
C7_DeleteAlwaysClears ==
  (outcome.handler = "delete" /\ outcome.kind # "none") =>
    /\ outcome = Returned("delete", "true")
    /\ webhookId = Absent

\* C7 as amended: with no id persisted delete returns true without a request;
\* with an id persisted, once authentication succeeded and the remote delete
\* request was answered (2xx, non-2xx or success=false alike) delete clears
\* the id and returns true; when authentication fails or the request fails at
\* transport level delete raises that error and the id stays persisted.
C7_DeleteBestEffort ==
  (outcome.handler = "delete" /\ outcome.kind # "none") =>
    IF log = <<>> \/ (LastRequest.method = "DELETE" /\ res.reachable)
    THEN /\ outcome = Returned("delete", "true")
         /\ webhookId = Absent
    ELSE /\ outcome.kind = "threw"
         /\ webhookId # Absent
         /\ LastRequest.method = "DELETE" \/ AuthRejected \/ ~res.reachable

C7_Witness ==
  /\ outcome = Returned("delete", "true")
  /\ log # <<>>
  /\ LastRequest.method = "DELETE"
  /\ ~Ok(res)
  /\ ~res.success
  /\ webhookId = Absent

\* C8: a record delete that succeeds yields exactly one output item, whose
\* json is {success: true, id: the record id of the request}, whatever the
\* body of the response holds.
C8_DeleteOutput ==
  (RecordRequestSucceeded /\ cur.operation = "delete") =>
    /\ LastRequest.target = cur.recordId
    /\ OutputsOf(LastItem) =
         <<[json |-> Obj({<<"success", "true">>, <<"id", cur.recordId>>}),
            pairedItem |-> LastItem]>>

C8_Witness ==
  /\ RecordRequestSucceeded
  /\ cur.operation = "delete"
  /\ cur.recordId = "r2"
  /\ res.data = Obj({<<"id", "b">>, <<"success", "false">>})
  /\ Len(OutputsOf(LastItem)) = 1

\* C9: in every copy a getAuth call fails at login or tenant-select exactly
\* when the response has success=false or no token; the message of the
\* failure ends with the remote error text when there is one and with a
\* generic fallback text when there is none, and the login and tenant-select
\* messages differ.
LoginPrefixes == {"Fyso authentication failed: ", "Fyso login failed: "}
SelectPrefixes == {"Fyso tenant selection failed: ", "Fyso tenant select failed: "}
Fallbacks == {"invalid credentials", "unknown error"}
C9_FailureMessage ==
  (outcome.handler = "getAuth" /\ res.reachable) =>
    /\ outcome.kind = "threw" <=> (~res.success \/ res.token = Absent)
    /\ outcome.kind = "threw" =>
         \E pre \in (IF Len(log) = 1 THEN LoginPrefixes ELSE SelectPrefixes) :
           IF res.error # Absent
           THEN outcome.message = pre \o res.error[1]
           ELSE \E f \in Fallbacks : outcome.message = pre \o f

\* C10: every record request of execute carries as bearer the tenant token
\* that the tenant-select of the same item returned, never the session token.
C10_TenantScopedBearer ==
  \A k \in 1..Len(log) :
    log[k].endpoint = "records" =>
      /\ k = 3
      /\ log[2].endpoint = "select"
      /\ log[k].bearer = TenantToken(serial, tenantId)
      /\ log[k].bearer # sessionToken

-----------------------------------------------------------------------------
(* Sequential processing of a batch *)

\* positions from which a request is sent, and positions where its answer
\* has just been received
Issuing == {"login", "select", "op"}
Awaiting == {"loginRes", "selectRes", "opRes"}

\* C11: execute processes its items one after the other.  A request is sent
\* only from a position where no request is pending and its answer is
\* received in the same await; it is a request of the current item i, whose
\* login is the (i+1)-th the remote answers; the index moves only forward,
\* by one, and only once item i's last request has been answered: the
\* remote sees the requests of the items in input order.
C11_Sequential ==
  [][ctx = "execute" =>
       /\ i' \in {i, i + 1}
       /\ (i' = i + 1) => (pc \in Awaiting \cup {"op"} /\ pc' \in {"item", "idle"})
       /\ (log' # log /\ log' # <<>>) =>
            /\ pc \in Issuing
            /\ pc' \in Awaiting
            /\ log' = Append(log, log'[Len(log')])
            /\ res' # NoResponse
            /\ i' = i
            /\ serial' = i + 1]_vars

\* the second item's record request is sent after the first item finished
\* with an output
C11_Witness ==
  /\ ctx = "execute"
  /\ i = 1
  /\ pc = "opRes"
  /\ Len(log) = 3
  /\ Len(results) = 1

-----------------------------------------------------------------------------
(* Tokens are not kept *)

\* C12: no token is cached or reused.  The requests of an invocation (an
\* input item of execute, a lookup, a hook) start with its own login and
\* hold no second one; every later request carries a token the remote
\* issued for that login (the login's session token or the tenant token
\* selected with it), never one of an earlier invocation; in execute the
\* remote has answered one login per item begun; and the remote answers a
\* login exactly when an invocation sends its first request.
C12_NoTokenReuse ==
  /\ [](/\ log # <<>> => log[1].endpoint = "login"
        /\ \A k \in 2..Len(log) :
             /\ log[k].endpoint # "login"
             /\ log[k].bearer \in {SessionToken(serial), TenantToken(serial, tenantId)}
        /\ (ctx # "none" /\ pc \notin {"item", "login"}) => log # <<>>
        /\ ctx = "execute" =>
             serial = i + (IF pc \in {"item", "login"} THEN 0 ELSE 1))
  /\ [][/\ serial' # serial => (serial' = serial + 1 /\ log = <<>> /\ Len(log') = 1)
        /\ (log = <<>> /\ log' # <<>>) => serial' = serial + 1]_vars

\* the record request of the second item carries the tenant token of the
\* second login
C12_Witness ==
  /\ ctx = "execute"
  /\ i = 1
  /\ pc = "opRes"
  /\ LastRequest.bearer = TenantToken(2, "t1")

-----------------------------------------------------------------------------
(* Failures of the record request *)

IsErrorItem(o) == Keys(o.json) = {"error"}

\* C13: an item that reached its record request sent exactly one, whatever
\* came back.  If the answer has a status outside 200..299 or success=false
\* the item fails with a NodeApiError carrying the answer's status and, when
\* the answer has one, its error text (captured as the item's error item
\* when execute continues on failure); an answer that is 2xx with
\* success=true gives the operation's success output and no error; a
\* request that got no answer fails the item with the transport error, not
\* an API error.
C13_ApiFailure ==
  (ItemDone /\ ReachedRecordRequest) =>
    LET out == OutputsOf(LastItem) IN
    /\ Cardinality({k \in 1..Len(log) : log[k].endpoint = "records"}) = 1
    /\ cur.operation \in {"create", "get", "list", "update", "delete"}
    /\ IF ~res.reachable
       THEN IF continueOnFail
            THEN out = <<ErrorItem(TransportError, LastItem)>>
            ELSE outcome.kind = "threw" /\ outcome.name = "TypeError" /\ out = <<>>
       ELSE IF res.status \notin 200..299 \/ ~res.success
       THEN IF continueOnFail
            THEN /\ Len(out) = 1
                 /\ IsErrorItem(out[1])
                 /\ res.error # Absent => <<"error", res.error[1]>> \in out[1].json.fields
            ELSE /\ outcome.kind = "threw"
                 /\ outcome.name = "NodeApiError"
                 /\ outcome.status = res.status
                 /\ res.error # Absent => outcome.message = res.error[1]
                 /\ out = <<>>
       ELSE /\ outcome.kind # "threw"
            /\ \A k \in 1..Len(out) : ~IsErrorItem(out[k])
            /\ cur.operation # "list" => Len(out) = 1

\* a 200 answer with success=false made execute throw the API error
C13_Witness ==
  /\ ItemDone
  /\ ReachedRecordRequest
  /\ res.reachable
  /\ Ok(res)
  /\ ~res.success
  /\ outcome.name = "NodeApiError"
  /\ outcome.status = 200

-----------------------------------------------------------------------------
(* Failures of the metadata lookups *)

\* some request of the lookup got no answer or an answer without success
LookupFailed == log # <<>> /\ (~res.reachable \/ ~res.success)

\* C14: the tenant and entity lookups are non-fatal.  Neither ever ends by
\* raising an error; a lookup in which the login, the tenant selection or
\* the list request failed returns the empty list; getEntities with no
\* tenant chosen returns the empty list without any request.
C14_LookupsNeverRaise ==
  outcome.handler \in {"getTenants", "getEntities"} =>
    /\ outcome.kind # "threw"
    /\ LookupFailed => Len(listing) = 0
    /\ (outcome.handler = "getEntities" /\ tenantId = "") =>
         (log = <<>> /\ Len(listing) = 0)

-----------------------------------------------------------------------------
(* The field descriptions *)

\* C15: getEntityFields describes every remote field, in order, with the
\* type number for number, boolean for boolean, dateTime (the host's
\* date-time type) for date and string for anything else, select included;
\* a select field's options come out one for one and in order as pairs of a
\* label (the property `name`) and a value: a plain string is both label
\* and value, a {value, label} pair keeps its value and shows its label, or
\* its value when it has no label.
C15_FieldMapping ==
  (outcome = Returned("getEntityFields", "fields") /\ log # <<>>
     /\ res.success /\ res.fields # Absent) =>
    LET fs == res.fields[1] IN
    /\ Len(listing) = Len(fs)
    /\ \A k \in 1..Len(fs) :
         LET f == fs[k]
             g == listing[k]
         IN /\ g.type = CASE f.fieldType = "number" -> "number"
                           [] f.fieldType = "boolean" -> "boolean"
                           [] f.fieldType = "date" -> "dateTime"
                           [] OTHER -> "string"
            /\ (f.fieldType = "select" /\ f.options # Absent) =>
                 /\ g.options # Absent
                 /\ Len(g.options[1]) = Len(f.options[1])
                 /\ \A j \in 1..Len(f.options[1]) :
                      LET o == f.options[1][j]
                          q == g.options[1][j]
                      IN /\ q.value = o.value
                         /\ q.name = IF o.isString THEN o.value
                                     ELSE IF o.label # Absent THEN o.label[1]
                                     ELSE o.value

\* a date field and a select field with a plain-string option were described
C15_Witness ==
  /\ outcome = Returned("getEntityFields", "fields")
  /\ Len(listing) = 2
  /\ listing[1].type = "dateTime"
  /\ listing[2].type = "string"
  /\ listing[2].options = <<(<<[name |-> "a", value |-> "a"]>>)>>

-----------------------------------------------------------------------------
(* The life of the webhook subscription *)

\* C16: once a deactivation has ended (delete returned), no webhook id is
\* persisted and no subscription this trigger registered remains in Fyso.
C16_DeactivationLeavesNothing ==
  outcome = Returned("delete", "true") => (webhookId = Absent /\ remoteSubs = {})

\* C17: the persisted webhook id is written only by create (when its
\* request was answered) and cleared only by delete; no step of checkExists,
\* of a delivery, of a lookup or of execute changes it, and no handler's
\* entry does.  Between the items of execute nothing is carried over but
\* the results built so far: the next item starts with fresh locals, and
\* the batch size and the failure mode stay what they were.
C17_WebhookIdFrame ==
  [][/\ webhookId' # webhookId =>
          \/ ctx = "create" /\ pc = "opRes" /\ webhookId' # Absent
          \/ ctx = "delete" /\ pc = "opRes" /\ webhookId' = Absent
     /\ ctx \in {"none", "checkExists", "execute", "getTenants", "getEntities",
                 "getEntityFields"} => webhookId' = webhookId
     /\ (ctx = "execute" /\ pc = "item") =>
          (res' = NoResponse /\ sessionToken' = "" /\ token' = "" /\ log' = <<>>)
     /\ ctx = "execute" =>
          /\ Len(results') >= Len(results)
          /\ SubSeq(results', 1, Len(results)) = results
          /\ n' = n
          /\ continueOnFail' = continueOnFail]_vars

\* a delivery was handled while a webhook id was persisted
C17_Witness ==
  /\ webhookId # Absent
  /\ outcome = Returned("webhook", "workflowData")

\* C19: whenever the trigger is at rest, Fyso holds at most one subscription
\* this trigger created, and the id of a subscription it holds is the
\* persisted id.
C19_AtMostOneHeld ==
  ctx = "none" =>
    /\ Cardinality(remoteSubs) <= 1
    /\ \A s \in remoteSubs : webhookId = <<s.id>>

-----------------------------------------------------------------------------
(* Unknown operations and the first failure of a batch *)

\* the item's authentication handshake went through
AuthPassed == res.reachable /\ ~AuthRejected

\* C18: an item whose operation is none of create, get, list, update,
\* delete sends no record request.  Its handshake comes first: the item has
\* sent its login, and when the handshake failed the item's error is the
\* authentication (or transport) error; only when the handshake went
\* through is it the NodeOperationError "Unknown operation: <value>" with
\* the item's index (the error item paired with the item when execute
\* continues on failure).
C18_UnknownOperation ==
  (ItemDone /\ cur.operation \notin {"create", "get", "list", "update", "delete"}) =>
    LET out == OutputsOf(LastItem)
        msg == "Unknown operation: " \o cur.operation
    IN /\ \A k \in 1..Len(log) : log[k].endpoint # "records"
       /\ log # <<>>
       /\ log[1].endpoint = "login"
       /\ IF continueOnFail
          THEN /\ Len(out) = 1
               /\ IsErrorItem(out[1])
               /\ out[1].pairedItem = LastItem
               /\ AuthPassed <=> <<"error", msg>> \in out[1].json.fields
          ELSE /\ outcome.kind = "threw"
               /\ out = <<>>
               /\ AuthPassed <=>
                    /\ outcome.name = "NodeOperationError"
                    /\ outcome.message = msg
                    /\ outcome.itemIndex = <<LastItem>>
               /\ ~AuthPassed => outcome.name \in {"ApplicationError", "TypeError"}

\* the second item asked for an unknown operation and execute threw for it
C18_Witness ==
  /\ ItemDone
  /\ cur.operation = "upsert"
  /\ outcome.name = "NodeOperationError"
  /\ outcome.itemIndex = <<1>>
  /\ Len(log) = 2

\* the loop body of the item just ended with an error
ItemFailed ==
  \/ ~res.reachable
  \/ AuthRejected
  \/ ~ReachedRecordRequest /\ ~KnownOperation(cur.operation)
  \/ ReachedRecordRequest /\ (~Ok(res) \/ ~res.success)

\* C20: with continue-on-failure disabled an item's failure ends execute at
\* once: execute throws that item's error exactly when the item failed, the
\* items before it had all succeeded, nothing is returned (the outputs built
\* so far are not handed to the host), the remote has answered no login
\* beyond the failed item's, and no step follows the throw: no request for
\* a later item and none that would undo an earlier one.
C20_FailFast ==
  /\ []((~continueOnFail /\ ItemDone) =>
          /\ ItemFailed <=> outcome.kind = "threw"
          /\ \A k \in 1..Len(results) :
               ~IsErrorItem(results[k]) /\ results[k].pairedItem < LastItem + 1
          /\ outcome.kind = "threw" =>
               /\ ctx = "none"
               /\ outcome.handler = "execute"
               /\ outcome.value = ""
               /\ i < n
               /\ serial = i + 1
               /\ OutputsOf(i) = <<>>)
  /\ [][outcome.kind # "threw"]_vars

\* the second item failed after the first had built its output
C20_Witness ==
  /\ ~continueOnFail
  /\ outcome.kind = "threw"
  /\ i = 1
  /\ Len(results) = 1

====
